---- MODULE Spec2Model ----
(***************************************************************************)
(* Model of the fabric-launcher deployment engine: the staged, retryable   *)
(* deployment controller (FabricLauncher.download_and_deploy,              *)
(* FabricLauncher._deploy_with_retry), one deployment session              *)
(* (FabricDeployer.deploy_items with its workspace validation) and the     *)
(* zero-GUID repair pass (PlatformFileFixer).                              *)
(***************************************************************************)
EXTENDS Integers, Sequences, FiniteSets, TLC

\* ---------------------------------------------------------------- bounds
MaxStages == 2
MaxRetries == 1
MaxFiles == 1

\* ------------------------------------------------------- program constants
\* PlatformFileFixer.ZERO_GUID, the all-zero logicalId (GUIDs are numbered).
ZERO_GUID == 0

\* ------------------------------------------------------------- input sets
ItemTypes == {"Lakehouse", "Notebook"}

\* An item_types argument; <<>> stands for both None and [] (both falsy).
TypeLists == {<<>>, <<"Lakehouse">>, <<"Notebook">>}

\* Stage plans: up to MaxStages stages, no two stages with the same list.
StagePlans ==
    {p \in UNION {[1..n -> TypeLists] : n \in 1..MaxStages} :
        \A i, j \in DOMAIN p : i # j => p[i] # p[j]}

\* The notebook the deployment is driven from, and items that may pre-exist.
current_notebook_name == "Launcher"
SelfItem == [name |-> current_notebook_name, type |-> "Notebook"]
OtherItem == [name |-> "Legacy", type |-> "Report"]
InitialWorkspaces == {{SelfItem}, {SelfItem, OtherItem}}

\* The item a publish creates for one item type of the bundle.
PublishedItem(t) == [name |-> "Deployed", type |-> t]

\* Exceptions as the caller sees them: class, message and the item count a
\* workspace validation message mentions.
NoError == [type |-> "None", msg |-> "None", count |-> 0]
PublishError(m) == [type |-> "Exception", msg |-> m, count |-> 0]

Range(s) == {s[i] : i \in DOMAIN s}

\* ------------------------------------------------- PlatformFileFixer
\* A .platform descriptor on disk: whether it parses as JSON, its
\* config.logicalId, and whether the file can be opened for writing.
Descriptors(f) ==
    { [parses |-> TRUE, logicalId |-> ZERO_GUID, writable |-> TRUE],
      [parses |-> TRUE, logicalId |-> ZERO_GUID, writable |-> FALSE],
      [parses |-> TRUE, logicalId |-> f, writable |-> TRUE],
      [parses |-> FALSE, logicalId |-> f, writable |-> TRUE] }

\* The descriptors a deployment session starts from.
SessionDescriptors(f) == {d \in Descriptors(f) : d.parses}

Bundles == {b \in [1..MaxFiles -> UNION {SessionDescriptors(f) : f \in 1..MaxFiles}] :
               \A f \in 1..MaxFiles : b[f] \in SessionDescriptors(f)}

\* Variant of uuid4 that hands out the same identifier every time.
uuid4_constant(counter) == 99

\* str(uuid.uuid4()): a fresh identifier, never the zero GUID.
uuid4(counter) == counter + 1

\* Variant of check_platform_file that takes any logicalId for the zero GUID.
check_platform_file_any(d) ==
    IF d.parses
    THEN [has_zero_guid |-> TRUE, parsed |-> TRUE]
    ELSE [has_zero_guid |-> FALSE, parsed |-> FALSE]

\* Variant of check_platform_file that reports an unreadable file as a zero
\* GUID file.
check_platform_file_unparsed_zero(d) ==
    IF d.parses
    THEN [has_zero_guid |-> d.logicalId = ZERO_GUID, parsed |-> TRUE]
    ELSE [has_zero_guid |-> TRUE, parsed |-> FALSE]

check_platform_file(d) ==
    IF d.parses
    THEN [has_zero_guid |-> d.logicalId = ZERO_GUID, parsed |-> TRUE]
    ELSE [has_zero_guid |-> FALSE, parsed |-> FALSE]

\* Variant of fix_platform_file that reports a fix without writing the file.
fix_platform_file_no_write(d, dry_run, new_guid) ==
    IF ~(d.parses /\ d.logicalId = ZERO_GUID) THEN [file |-> d, fixed |-> FALSE]
    ELSE [file |-> d, fixed |-> TRUE]

\* Variant of fix_platform_file that writes the file in a dry run as well.
fix_platform_file_ignores_dry_run(d, dry_run, new_guid) ==
    IF ~(d.parses /\ d.logicalId = ZERO_GUID) THEN [file |-> d, fixed |-> FALSE]
    ELSE IF d.writable
         THEN [file |-> [d EXCEPT !.logicalId = new_guid], fixed |-> TRUE]
         ELSE [file |-> d, fixed |-> dry_run]

\* Returns the file after the call and the boolean the method returns.
fix_platform_file(d, dry_run, new_guid) ==
    IF ~check_platform_file(d).has_zero_guid THEN [file |-> d, fixed |-> FALSE]
    ELSE IF dry_run THEN [file |-> d, fixed |-> TRUE]
    ELSE IF d.writable
         THEN [file |-> [d EXCEPT !.logicalId = new_guid], fixed |-> TRUE]
         ELSE [file |-> d, fixed |-> FALSE]

\* find_platform_files: the descriptors of the bundle in listing order.
find_platform_files(b) == [i \in 1..Len(b) |-> i]

RECURSIVE ZeroGuidFiles(_, _)
ZeroGuidFiles(b, files) ==
    IF files = <<>> THEN <<>>
    ELSE LET rest == ZeroGuidFiles(b, Tail(files))
         IN IF check_platform_file(b[Head(files)]).has_zero_guid
            THEN <<Head(files)>> \o rest
            ELSE rest

RECURSIVE FixFiles(_, _, _, _, _)
FixFiles(b, files, dry_run, counter, fixed_files) ==
    IF files = <<>>
    THEN [bundle |-> b, uuid_counter |-> counter, fixed_files |-> fixed_files]
    ELSE LET f == Head(files)
             r == fix_platform_file(b[f], dry_run, uuid4(counter))
         IN FixFiles([b EXCEPT ![f] = r.file], Tail(files), dry_run, uuid4(counter),
                     IF r.fixed THEN Append(fixed_files, f) ELSE fixed_files)

scan_and_fix_all(b, dry_run, counter) ==
    LET platform_files == find_platform_files(b)
        files_with_zero_guid == ZeroGuidFiles(b, platform_files)
        done == FixFiles(b, files_with_zero_guid, dry_run, counter, <<>>)
    IN [total_files |-> Len(platform_files),
        files_with_zero_guid |-> Len(files_with_zero_guid),
        files_fixed |-> Len(done.fixed_files),
        fixed_files |-> done.fixed_files,
        bundle |-> done.bundle,
        uuid_counter |-> done.uuid_counter]

\* A descriptor that parses and still carries the zero GUID.
HasSentinel(b) == \E f \in DOMAIN b : b[f].parses /\ b[f].logicalId = ZERO_GUID


\* ------------------------------------------------------ FabricDeployer
\* Variant of validate_workspace_is_empty that does not filter out the
\* current notebook.
validate_workspace_no_filter(all_items, name_known, list_ok) ==
    IF ~name_known THEN [result |-> "skipped", count |-> 0]
    ELSE IF ~list_ok THEN [result |-> "abandoned", count |-> 0]
    ELSE IF all_items = {} THEN [result |-> "passed", count |-> 0]
    ELSE [result |-> "failed", count |-> Cardinality(all_items)]

\* Outcome of _validate_workspace_is_empty: "skipped" (notebook name not
\* available), "abandoned" (the listing call failed), "passed", or "failed"
\* (RuntimeError) with the number of other items the message carries.
validate_workspace_is_empty(all_items, name_known, list_ok) ==
    IF ~name_known THEN [result |-> "skipped", count |-> 0]
    ELSE IF ~list_ok THEN [result |-> "abandoned", count |-> 0]
    ELSE IF all_items = {} THEN [result |-> "passed", count |-> 0]
    ELSE LET other_items == {it \in all_items : it.name # current_notebook_name}
         IN IF other_items = {}
            THEN [result |-> "passed", count |-> 0]
            ELSE [result |-> "failed", count |-> Cardinality(other_items)]

WorkspaceNotEmpty(n) == [type |-> "RuntimeError", msg |-> "WorkspaceNotEmpty", count |-> n]

\* A RuntimeError raised by fabric.list_items itself.
ListItemsError == [type |-> "RuntimeError", msg |-> "ListItemsFailed", count |-> 0]

\* The exception types a failing fabric.list_items is told apart by.
ListErrors == {"Exception", "RuntimeError"}

\* The except clauses around the listing: "except RuntimeError: raise", then
\* "except Exception" which warns and lets the deployment proceed.
list_items_failure(error_type) ==
    IF error_type = "RuntimeError" THEN "raise" ELSE "abandon"

\* _validate_workspace_is_empty with the type of the exception a failed
\* listing raised: "reraised" when that exception leaves the validator.
validate_workspace_outcome(all_items, name_known, list_ok, list_error) ==
    IF name_known /\ ~list_ok /\ list_items_failure(list_error) = "raise"
    THEN [result |-> "reraised", count |-> 0]
    ELSE validate_workspace_is_empty(all_items, name_known, list_ok)

\* Variant of existing_items_printed that lists every item of the workspace.
existing_items_printed_all(all_items, name_known, list_ok) ==
    IF validate_workspace_is_empty(all_items, name_known, list_ok).result = "failed"
    THEN all_items
    ELSE {}

\* The "Existing items:" lines _validate_workspace_is_empty prints before it
\* raises: Display Name and Type of every item other than the notebook.
existing_items_printed(all_items, name_known, list_ok) ==
    IF validate_workspace_is_empty(all_items, name_known, list_ok).result = "failed"
    THEN {it \in all_items : it.name # current_notebook_name}
    ELSE {}

\* Variant of repair_step that runs the scan in dry-run mode.
repair_step_dry_run(fix_zero_logical_ids, b, counter) ==
    IF fix_zero_logical_ids
    THEN LET results == scan_and_fix_all(b, TRUE, counter)
         IN [bundle |-> results.bundle, uuid_counter |-> results.uuid_counter,
             passes |-> <<TRUE>>, fixers |-> 1,
             files_fixed |-> results.files_fixed,
             files_with_zero_guid |-> results.files_with_zero_guid]
    ELSE [bundle |-> b, uuid_counter |-> counter, passes |-> <<>>, fixers |-> 0,
          files_fixed |-> 0, files_with_zero_guid |-> 0]

\* The repair step of deploy_items: one scan_and_fix_all(dry_run=False) by a
\* fixer created for this call when fix_zero_logical_ids, nothing otherwise.
\* passes lists the dry_run argument of each pass made.
repair_step(fix_zero_logical_ids, b, counter) ==
    IF fix_zero_logical_ids
    THEN LET results == scan_and_fix_all(b, FALSE, counter)
         IN [bundle |-> results.bundle, uuid_counter |-> results.uuid_counter,
             passes |-> <<FALSE>>, fixers |-> 1,
             files_fixed |-> results.files_fixed,
             files_with_zero_guid |-> results.files_with_zero_guid]
    ELSE [bundle |-> b, uuid_counter |-> counter, passes |-> <<>>, fixers |-> 0,
          files_fixed |-> 0, files_with_zero_guid |-> 0]

\* Whether deploy_items calls _validate_workspace_is_empty.
runs_validation(d) == ~d.allow_non_empty_workspace

\* workspace.item_type_in_scope after the "if item_types:" statement;
\* <<>> is the library default None (no type scope).
scope_step(item_types, item_type_in_scope) ==
    IF item_types # <<>> THEN item_types ELSE item_type_in_scope

\* The item types publish_all_items deploys under a scope.
ScopedTypes(scope) == IF scope = <<>> THEN ItemTypes ELSE Range(scope)

\* What the remote publish may do: succeed, fail on a conflict before it
\* created anything, or time out after the items in scope were created.
PublishOutcomes ==
    {[ok |-> TRUE, msg |-> "None", partial |-> FALSE],
     [ok |-> FALSE, msg |-> "Conflict", partial |-> FALSE],
     [ok |-> FALSE, msg |-> "Timeout", partial |-> TRUE]}

\* A listing that fails in a deployment session fails with an exception
\* that is not a RuntimeError.
Environments == [name_known : BOOLEAN, list_ok : BOOLEAN, publish : PublishOutcomes]

\* The environments a call of deployer d can tell apart: the notebook name and
\* the listing are only asked for when the validation runs.
EnvironmentsFor(d) ==
    {e \in Environments : ~runs_validation(d) => (e.name_known /\ e.list_ok)}

\* One call deployer.deploy_items(item_types): the state it leaves behind,
\* whether it raised, and what it did on the way.
deploy_items(d, item_types, scope0, b, counter, items, env) ==
    LET rep == repair_step(d.fix_zero_logical_ids, b, counter)
        val == IF runs_validation(d)
               THEN validate_workspace_is_empty(items, env.name_known, env.list_ok)
               ELSE [result |-> "not_run", count |-> 0]
        scope == scope_step(item_types, scope0)
        created == {PublishedItem(t) : t \in ScopedTypes(scope)}
    IN IF val.result = "failed"
       THEN [raised |-> TRUE, error |-> WorkspaceNotEmpty(val.count),
             bundle |-> rep.bundle, uuid_counter |-> rep.uuid_counter,
             item_type_in_scope |-> scope0, workspace_items |-> items,
             repair_passes |-> rep.passes, fixers |-> rep.fixers,
             validation |-> val.result, published |-> FALSE,
             sentinel |-> HasSentinel(rep.bundle)]
       ELSE [raised |-> ~env.publish.ok,
             error |-> IF env.publish.ok THEN NoError ELSE PublishError(env.publish.msg),
             bundle |-> rep.bundle, uuid_counter |-> rep.uuid_counter,
             item_type_in_scope |-> scope,
             workspace_items |-> IF env.publish.ok \/ env.publish.partial
                                 THEN items \cup created ELSE items,
             repair_passes |-> rep.passes, fixers |-> rep.fixers,
             validation |-> val.result, published |-> TRUE,
             sentinel |-> HasSentinel(rep.bundle)]

\* ------------------------------------------------------ FabricLauncher
\* Variant of ratchet that marks the session started but leaves
\* allow_non_empty_workspace as it was.
ratchet_keeps_allow(d) == [d EXCEPT !.deployment_session_started = "True"]

\* The deployer after the except branch of _deploy_with_retry prepared a retry.
ratchet(d) ==
    [d EXCEPT !.allow_non_empty_workspace = TRUE, !.deployment_session_started = "True"]

\* Variant of handler that swallows the exception when no retries remain.
handler_swallows(raised, retries) ==
    IF ~raised THEN "return"
    ELSE IF retries > 0 THEN "retry"
    ELSE "return"

\* Variant of handler that retries once more than the budget allows.
handler_off_by_one(raised, retries) ==
    IF ~raised THEN "return"
    ELSE IF retries >= 0 THEN "retry"
    ELSE "raise"

\* What one frame of _deploy_with_retry does once deploy_items came back.
handler(raised, retries) ==
    IF ~raised THEN "return"
    ELSE IF retries > 0 THEN "retry"
    ELSE "raise"

\* Variant of reraise that raises a new generic exception instead.
reraise_wrapped(e) == [type |-> "Exception", msg |-> "DeploymentFailed", count |-> 0]

\* The bare "raise" when no retries remain: the exception just caught.
reraise(e) == e

\* Variant of on_deployment_error that removes what the session deployed.
on_deployment_error_cleanup(items) == items \ {PublishedItem(t) : t \in ItemTypes}

\* The except block of download_and_deploy around the deployment step records
\* the error in the report and re-raises; the workspace is left as it is.
on_deployment_error(items) == items

\* allow_non_empty_workspace of the session: the argument, or the launcher's
\* own setting when the argument is None (no configuration file loaded).
resolve_allow(arg, launcher_setting) ==
    IF arg = "None" THEN launcher_setting ELSE arg = "True"


\* ---------------------------------------------------------------- state
VARIABLES
    pc,                  \* "Idle", "Deploying", "Done" or "Failed"
    launcher,            \* FabricLauncher: allow_non_empty_workspace, fix_zero_logical_ids
    item_type_stages,    \* argument of download_and_deploy (<<>>: not staged)
    item_types,          \* argument of download_and_deploy (<<>>: None)
    deployment_retries,  \* argument of download_and_deploy
    stage_num,           \* 1-based position in the stage loop
    retries_remaining,   \* argument of the current _deploy_with_retry frame
    deployer,            \* FabricDeployer attributes
    item_type_in_scope,  \* deployer.workspace.item_type_in_scope
    bundle,              \* the .platform descriptors of the repository directory
    uuid_counter,        \* identifiers generated so far
    workspace_items,     \* items in the remote workspace
    log,                 \* one record per deploy_items call, oldest first
    last,                \* what the most recent deploy_items call did
    surfaced,            \* exception raised to the caller of download_and_deploy
    validation,          \* what a direct call of _validate_workspace_is_empty did
    fixer_runs,          \* one record per PlatformFileFixer call, oldest first
    platform_files,      \* the .platform descriptors scan_logical_ids iterates over
    scan_pos,            \* descriptors scan_logical_ids has processed
    logical_id_map,      \* logical_id_map of the scan_logical_ids call in progress
    listed_ids,          \* item ids seen in the listings returned to the scan
    resolved,            \* per processed descriptor, the item id its listing held for it
    scan_failures,       \* positions of the descriptors whose listing request failed
    scan_aborted,        \* an exception left the loop of scan_logical_ids
    item_definition,     \* argument of replace_logical_ids
    id_pairs,            \* a logical_id_map argument as (key, value) pairs in dict order
    updated_definition,  \* what replace_logical_ids did and returned
    repo_item,           \* the item directory create_or_update_fabric_item reads
    remote_calls,        \* REST calls create_or_update_fabric_item issued, oldest first
    publish_result,      \* how create_or_update_fabric_item ended
    config,              \* launcher.config: the value a loaded file gives the setting
    request              \* a download_and_deploy / deploy_artifacts call and its outcome

\* State of the deployment session (launcher and deployer).
session_vars == <<pc, launcher, item_type_stages, item_types, deployment_retries,
                  stage_num, retries_remaining, deployer, item_type_in_scope,
                  log, last, surfaced>>

\* State of direct calls of the validator, the fixer and the logical-id scan.
scan_vars == <<platform_files, scan_pos, logical_id_map, listed_ids, resolved,
               scan_failures, scan_aborted>>

\* State of direct calls of replace_logical_ids, create_or_update_fabric_item
\* and of the argument handling of the launcher's deploy methods.
api_vars == <<item_definition, id_pairs, updated_definition, repo_item,
              remote_calls, publish_result, config, request>>

tool_vars == <<validation, fixer_runs, platform_files, scan_pos, logical_id_map,
               listed_ids, resolved, scan_failures, scan_aborted, item_definition,
               id_pairs, updated_definition, repo_item, remote_calls,
               publish_result, config, request>>

vars == <<pc, launcher, item_type_stages, item_types, deployment_retries, stage_num,
          retries_remaining, deployer, item_type_in_scope, bundle, uuid_counter,
          workspace_items, log, last, surfaced, validation, fixer_runs,
          platform_files, scan_pos, logical_id_map, listed_ids, resolved,
          scan_failures, scan_aborted, item_definition, id_pairs,
          updated_definition, repo_item, remote_calls, publish_result, config,
          request>>

NoCall == [repair_passes |-> <<>>, fixers |-> 0, validation |-> "not_run",
           sentinel |-> FALSE, published |-> FALSE, raised |-> FALSE, error |-> NoError]

NoDeployer == [allow_non_empty_workspace |-> FALSE, fix_zero_logical_ids |-> FALSE,
               deployment_session_started |-> "unset"]

\* The type lists the session deploys, one deploy per entry: the stages, or
\* the single item_types list of deploy_artifacts.
StagePlan == IF item_type_stages # <<>> THEN item_type_stages ELSE <<item_types>>

\* No direct call of the validator, the fixer or the scan has been made.
NotValidated == [called |-> FALSE, name_known |-> FALSE, list_ok |-> FALSE,
                 list_error |-> "None", result |-> "not_run", error |-> NoError,
                 printed |-> {}]

NotReplaced == [called |-> FALSE, op |-> "none", value |-> <<>>,
                replacements_made |-> 0]

NoItem == [exists |-> FALSE, displayName |-> "", type |-> "", parts |-> 0]

NoAnswer == [raised |-> FALSE, status_code |-> 0]

\* No call made: no id returned (-1), no request answered.
NotPublished == [called |-> FALSE, raised |-> FALSE, item_id |-> 0 - 1,
                 create_response |-> NoAnswer,
                 list_response |-> [raised |-> FALSE, status_code |-> 0,
                                    value |-> <<>>],
                 update_response |-> NoAnswer]

NoRequest == [method |-> "None", item_types |-> "None", item_type_stages |-> "None",
              allow |-> "None", raised |-> FALSE, error |-> "", steps |-> <<>>,
              deployer_created |-> FALSE, allow_non_empty_workspace |-> FALSE]

\* No direct call of replace_logical_ids or create_or_update_fabric_item has
\* been made, no configuration file is loaded and no deploy method was called.
ApiIdle ==
    /\ item_definition = <<>>
    /\ id_pairs = <<>>
    /\ updated_definition = NotReplaced
    /\ repo_item = NoItem
    /\ remote_calls = <<>>
    /\ publish_result = NotPublished
    /\ config = "NoFile"
    /\ request = NoRequest

ToolsIdle ==
    /\ validation = NotValidated
    /\ fixer_runs = <<>>
    /\ platform_files = <<>>
    /\ scan_pos = 0
    /\ logical_id_map = <<>>
    /\ listed_ids = {}
    /\ resolved = <<>>
    /\ scan_failures = {}
    /\ scan_aborted = FALSE
    /\ ApiIdle

Init ==
    /\ pc = "Idle"
    /\ launcher \in [allow_non_empty_workspace : BOOLEAN, fix_zero_logical_ids : BOOLEAN]
    /\ item_type_stages = <<>>
    /\ item_types = <<>>
    /\ deployment_retries = 0
    /\ stage_num = 0
    /\ retries_remaining = 0
    /\ deployer = NoDeployer
    /\ item_type_in_scope = <<>>
    /\ bundle \in Bundles
    /\ uuid_counter = MaxFiles
    /\ workspace_items \in InitialWorkspaces
    /\ log = <<>>
    /\ last = NoCall
    /\ surfaced = NoError
    /\ ToolsIdle

\* download_and_deploy up to the first deploy: the arguments are fixed and the
\* FabricDeployer of the session is created (staged branch, or deploy_artifacts).
download_and_deploy ==
    /\ pc = "Idle"
    /\ \E stages \in StagePlans \cup {<<>>}, types \in TypeLists,
          retries \in 0..MaxRetries, allow \in {"None", "True", "False"} :
          /\ stages # <<>> => types = <<>>
          /\ item_type_stages' = stages
          /\ item_types' = types
          /\ deployment_retries' = retries
          /\ retries_remaining' = retries
          /\ deployer' = [allow_non_empty_workspace |->
                              resolve_allow(allow, launcher.allow_non_empty_workspace),
                          fix_zero_logical_ids |-> launcher.fix_zero_logical_ids,
                          deployment_session_started |-> "unset"]
    /\ stage_num' = 1
    /\ item_type_in_scope' = <<>>
    /\ pc' = "Deploying"
    /\ UNCHANGED <<launcher, bundle, uuid_counter, workspace_items, log, last, surfaced>>
    /\ UNCHANGED tool_vars

\* The record of a call kept in the log: its arguments, the deployer flags it
\* started with, and whether it validated, published and raised.
LogEntry(r) ==
    [stage |-> stage_num, item_types |-> StagePlan[stage_num],
     retries_remaining |-> retries_remaining,
     allow |-> deployer.allow_non_empty_workspace,
     started |-> deployer.deployment_session_started,
     validated |-> r.validation # "not_run", published |-> r.published,
     scope |-> r.item_type_in_scope, raised |-> r.raised]

\* The detail kept of the most recent call only.
LastCall(r) ==
    [repair_passes |-> r.repair_passes, fixers |-> r.fixers,
     validation |-> r.validation, sentinel |-> r.sentinel,
     published |-> r.published, raised |-> r.raised, error |-> r.error]

\* One frame of _deploy_with_retry: the deploy_items call and what follows it
\* (return: the stage is complete; retry: ratchet and call again; raise: the
\* exception leaves the session).
Attempt(env) ==
    LET r == deploy_items(deployer, StagePlan[stage_num], item_type_in_scope,
                          bundle, uuid_counter, workspace_items, env)
        what == handler(r.raised, retries_remaining)
    IN /\ pc = "Deploying"
       /\ bundle' = r.bundle
       /\ uuid_counter' = r.uuid_counter
       /\ item_type_in_scope' = r.item_type_in_scope
       /\ log' = Append(log, LogEntry(r))
       /\ last' = LastCall(r)
       /\ CASE what = "return" ->
                 /\ workspace_items' = r.workspace_items
                 /\ IF stage_num < Len(StagePlan)
                    THEN /\ stage_num' = stage_num + 1
                         /\ retries_remaining' = deployment_retries
                         /\ pc' = "Deploying"
                    ELSE /\ pc' = "Done"
                         /\ UNCHANGED <<stage_num, retries_remaining>>
                 /\ UNCHANGED <<deployer, surfaced>>
            [] what = "retry" ->
                 /\ workspace_items' = r.workspace_items
                 /\ deployer' = ratchet(deployer)
                 /\ retries_remaining' = retries_remaining - 1
                 /\ UNCHANGED <<pc, stage_num, surfaced>>
            [] what = "raise" ->
                 /\ workspace_items' = on_deployment_error(r.workspace_items)
                 /\ surfaced' = reraise(r.error)
                 /\ pc' = "Failed"
                 /\ UNCHANGED <<deployer, stage_num, retries_remaining>>
       /\ UNCHANGED <<launcher, item_type_stages, item_types, deployment_retries>>
       /\ UNCHANGED tool_vars

deploy_with_retry == \E env \in EnvironmentsFor(deployer) : Attempt(env)

Next == download_and_deploy \/ deploy_with_retry

Spec == Init /\ [][Next]_vars

\* ------------------------------------- direct calls of the validation
MaxListed == 3

\* Items fabric.list_items may return: the running notebook, an item of
\* another type with the notebook's name, and items with other names.
ListedItems == [name : {current_notebook_name, "Legacy", "Sales"},
                type : {"Notebook", "Report"}]

Listings == {l \in SUBSET ListedItems : Cardinality(l) <= MaxListed}

\* No deployment session has been started.
SessionIdle ==
    /\ pc = "Idle"
    /\ launcher = [allow_non_empty_workspace |-> FALSE, fix_zero_logical_ids |-> FALSE]
    /\ item_type_stages = <<>>
    /\ item_types = <<>>
    /\ deployment_retries = 0
    /\ stage_num = 0
    /\ retries_remaining = 0
    /\ deployer = NoDeployer
    /\ item_type_in_scope = <<>>
    /\ log = <<>>
    /\ last = NoCall
    /\ surfaced = NoError

ValidatorInit ==
    /\ SessionIdle
    /\ ToolsIdle
    /\ bundle = <<>>
    /\ uuid_counter = 0
    /\ workspace_items \in Listings

\* One call of FabricDeployer._validate_workspace_is_empty: the notebook name
\* may or may not be available and the listing call may or may not succeed;
\* a listing asked for that fails raises a RuntimeError or another exception.
validate_workspace ==
    /\ ~validation.called
    /\ \E name_known \in BOOLEAN, list_ok \in BOOLEAN,
          list_error \in ListErrors \cup {"None"} :
          LET val == validate_workspace_outcome(workspace_items, name_known, list_ok,
                                                list_error)
          IN /\ (list_error # "None") <=> (name_known /\ ~list_ok)
             /\ validation' =
                 [called |-> TRUE, name_known |-> name_known, list_ok |-> list_ok,
                  list_error |-> list_error,
                  result |-> val.result,
                  error |-> IF val.result = "failed" THEN WorkspaceNotEmpty(val.count)
                            ELSE IF val.result = "reraised" THEN ListItemsError
                            ELSE NoError,
                  printed |-> existing_items_printed(workspace_items, name_known, list_ok)]
    /\ UNCHANGED <<session_vars, bundle, uuid_counter, workspace_items, fixer_runs,
                   scan_vars, api_vars>>

ValidatorNext == validate_workspace

ValidatorSpec == ValidatorInit /\ [][ValidatorNext]_vars

\* ------------------------------------------ direct calls of the fixer
MaxBundleFiles == 2
MaxRuns == 2

\* Repository directories with up to MaxBundleFiles .platform files of any
\* kind, unreadable ones included.
FixerBundles ==
    UNION {{b \in [1..n -> UNION {Descriptors(f) : f \in 1..n}] :
               \A f \in 1..n : b[f] \in Descriptors(f)} : n \in 0..MaxBundleFiles}

FixerInit ==
    /\ SessionIdle
    /\ ToolsIdle
    /\ workspace_items = {}
    /\ bundle \in FixerBundles
    /\ uuid_counter = MaxBundleFiles

\* One call fixer.scan_and_fix_all(dry_run).
scan_and_fix ==
    /\ Len(fixer_runs) < MaxRuns
    /\ \E dry_run \in BOOLEAN :
          LET results == scan_and_fix_all(bundle, dry_run, uuid_counter)
          IN /\ bundle' = results.bundle
             /\ uuid_counter' = results.uuid_counter
             /\ fixer_runs' = Append(fixer_runs,
                    [op |-> "scan_and_fix_all", dry_run |-> dry_run, file |-> 0,
                     before |-> bundle,
                     total_files |-> results.total_files,
                     files_with_zero_guid |-> results.files_with_zero_guid,
                     files_fixed |-> results.files_fixed,
                     fixed_files |-> results.fixed_files])
    /\ UNCHANGED <<session_vars, workspace_items, validation, scan_vars, api_vars>>

\* One call fixer.fix_platform_file(file_path, dry_run) on a file of the
\* directory.
fix_file ==
    /\ Len(fixer_runs) < MaxRuns
    /\ \E f \in DOMAIN bundle, dry_run \in BOOLEAN :
          LET has_zero_guid == check_platform_file(bundle[f]).has_zero_guid
              r == fix_platform_file(bundle[f], dry_run, uuid4(uuid_counter))
          IN /\ bundle' = [bundle EXCEPT ![f] = r.file]
             /\ uuid_counter' = IF has_zero_guid THEN uuid4(uuid_counter)
                                                  ELSE uuid_counter
             /\ fixer_runs' = Append(fixer_runs,
                    [op |-> "fix_platform_file", dry_run |-> dry_run, file |-> f,
                     before |-> bundle,
                     total_files |-> 1,
                     files_with_zero_guid |-> IF has_zero_guid THEN 1 ELSE 0,
                     files_fixed |-> IF r.fixed THEN 1 ELSE 0,
                     fixed_files |-> IF r.fixed THEN <<f>> ELSE <<>>])
    /\ UNCHANGED <<session_vars, workspace_items, validation, scan_vars, api_vars>>

FixerNext == scan_and_fix \/ fix_file

FixerSpec == FixerInit /\ [][FixerNext]_vars

\* ------------------------------------------------ scan_logical_ids
MaxScanFiles == 2
MaxInventory == 2

\* A field json.load found no value for (None).
NoId == -1

\* The .platform files of the repository as the scan reads them: metadata
\* displayName and type ("": absent or empty) and config.logicalId (NoId:
\* absent); some share a logicalId, one carries the zero GUID, one has each
\* field missing and one does not parse.
PlatformFiles ==
    { [parses |-> TRUE, displayName |-> "Orders", type |-> "Notebook", logicalId |-> 1],
      [parses |-> TRUE, displayName |-> "orders", type |-> "Notebook", logicalId |-> 1],
      [parses |-> TRUE, displayName |-> "Orders", type |-> "Lakehouse", logicalId |-> 2],
      [parses |-> TRUE, displayName |-> "Orders", type |-> "Notebook", logicalId |-> ZERO_GUID],
      [parses |-> TRUE, displayName |-> "", type |-> "Notebook", logicalId |-> 1],
      [parses |-> TRUE, displayName |-> "Orders", type |-> "", logicalId |-> 1],
      [parses |-> TRUE, displayName |-> "Orders", type |-> "Notebook", logicalId |-> NoId],
      [parses |-> FALSE, displayName |-> "", type |-> "", logicalId |-> NoId] }

ScanBundles == UNION {[1..n -> PlatformFiles] : n \in 0..MaxScanFiles}

\* Items of the workspace as the items endpoint lists them: two notebooks
\* with the same name, one whose name differs in case only, and an item of
\* another type with the same name.
RemoteItems ==
    { [id |-> 101, displayName |-> "Orders", type |-> "Notebook"],
      [id |-> 102, displayName |-> "Orders", type |-> "Notebook"],
      [id |-> 103, displayName |-> "orders", type |-> "Notebook"],
      [id |-> 104, displayName |-> "Orders", type |-> "Lakehouse"] }

\* A listing: up to MaxInventory different items in any order.
InventoryListings ==
    {l \in UNION {[1..n -> RemoteItems] : n \in 0..MaxInventory} :
        \A i, j \in DOMAIN l : i # j => l[i] # l[j]}

\* What client.get(list_items_url) does: raise, answer with another status,
\* or answer 200 with a listing.
Responses ==
    {[raised |-> TRUE, status_code |-> 0, value |-> <<>>],
     [raised |-> FALSE, status_code |-> 500, value |-> <<>>]}
    \cup {[raised |-> FALSE, status_code |-> 200, value |-> l] : l \in InventoryListings}

NoResponse == [raised |-> FALSE, status_code |-> 0, value |-> <<>>]

\* all([display_name, item_type, logical_id])
has_all_fields(pf) == pf.displayName # "" /\ pf.type # "" /\ pf.logicalId # NoId

\* Whether the loop body reaches client.get for this file.
requests_listing(pf) == pf.parses /\ has_all_fields(pf)

\* Variant of find_matching_item that keeps the last matching item.
find_last_matching_item(items, display_name, item_type) ==
    LET hits == {i \in DOMAIN items : /\ items[i].displayName = display_name
                                       /\ items[i].type = item_type}
    IN IF hits = {} THEN [found |-> FALSE, id |-> NoId]
       ELSE [found |-> TRUE,
             id |-> items[CHOOSE i \in hits : \A j \in hits : j <= i].id]

\* The "for item in items" loop: the id of the first item whose displayName
\* and type equal the descriptor's, then break.
RECURSIVE find_matching_item(_, _, _)
find_matching_item(items, display_name, item_type) ==
    IF items = <<>> THEN [found |-> FALSE, id |-> NoId]
    ELSE IF Head(items).displayName = display_name /\ Head(items).type = item_type
         THEN [found |-> TRUE, id |-> Head(items).id]
         ELSE find_matching_item(Tail(items), display_name, item_type)

\* logical_id_map[key] = value
map_set(map, key, value) ==
    [k \in DOMAIN map \cup {key} |-> IF k = key THEN value ELSE map[k]]

\* Variant of scan_platform_file that records the zero GUID for a
\* descriptor it found no item for.
scan_platform_file_placeholder(pf, response, map) ==
    IF ~requests_listing(pf) THEN map
    ELSE IF response.raised \/ response.status_code # 200 THEN map
    ELSE LET m == find_matching_item(response.value, pf.displayName, pf.type)
         IN map_set(map, pf.logicalId, IF m.found THEN m.id ELSE ZERO_GUID)

\* The body of the "for platform_file in platform_files" loop: the map after
\* the file was processed with the given answer to its listing request.
scan_platform_file(pf, response, map) ==
    IF ~pf.parses THEN map
    ELSE IF ~has_all_fields(pf) THEN map
    ELSE IF response.raised THEN map
    ELSE IF response.status_code # 200 THEN map
    ELSE LET m == find_matching_item(response.value, pf.displayName, pf.type)
         IN IF m.found THEN map_set(map, pf.logicalId, m.id) ELSE map

\* Whether the listing request of a descriptor failed: client.get raised, or
\* the answer's status is not 200.
lookup_failed(pf, response) ==
    requests_listing(pf) /\ (response.raised \/ response.status_code # 200)

\* Variant of lookup_handler that lets the exception of client.get leave the
\* loop.
lookup_handler_reraises(response) == IF response.raised THEN "raise" ELSE "next"

\* The handler "except Exception as e: logger.warning(...); continue" around
\* the listing request: how the loop goes on after the answer.
lookup_handler(response) == IF response.raised THEN "continue" ELSE "next"

\* The ids of the items a response lists.
ListedIn(response) ==
    IF response.raised \/ response.status_code # 200 THEN {}
    ELSE {response.value[i].id : i \in DOMAIN response.value}

\* The id of the item at the least position of the listing answered for pf
\* that has pf's displayName and type; NoId if pf made no request, got no
\* listing, or the listing holds no such item.
FirstListed(pf, response) ==
    LET hits == {i \in DOMAIN response.value :
                    /\ response.value[i].displayName = pf.displayName
                    /\ response.value[i].type = pf.type}
    IN IF requests_listing(pf) /\ ListedIn(response) # {} /\ hits # {}
       THEN response.value[CHOOSE i \in hits : \A j \in hits : i <= j].id
       ELSE NoId

ScanInit ==
    /\ SessionIdle
    /\ validation = NotValidated
    /\ fixer_runs = <<>>
    /\ bundle = <<>>
    /\ uuid_counter = 0
    /\ workspace_items = {}
    /\ platform_files \in ScanBundles
    /\ scan_pos = 0
    /\ logical_id_map = <<>>
    /\ listed_ids = {}
    /\ resolved = <<>>
    /\ scan_failures = {}
    /\ scan_aborted = FALSE
    /\ ApiIdle

\* One iteration of the loop of scan_logical_ids over platform_files.
scan_logical_ids ==
    /\ scan_pos < Len(platform_files)
    /\ ~scan_aborted
    /\ LET pf == platform_files[scan_pos + 1]
       IN \E response \in IF requests_listing(pf) THEN Responses ELSE {NoResponse} :
             /\ logical_id_map' = scan_platform_file(pf, response, logical_id_map)
             /\ listed_ids' = listed_ids \cup ListedIn(response)
             /\ resolved' = Append(resolved, FirstListed(pf, response))
             /\ scan_failures' = IF lookup_failed(pf, response)
                                 THEN scan_failures \cup {scan_pos + 1}
                                 ELSE scan_failures
             /\ scan_aborted' = (lookup_handler(response) = "raise")
    /\ scan_pos' = scan_pos + 1
    /\ UNCHANGED <<session_vars, bundle, uuid_counter, workspace_items, validation,
                   fixer_runs, platform_files, api_vars>>

ScanNext == scan_logical_ids

ScanSpec == ScanInit /\ [][ScanNext]_vars

-----------------------------------------------------------------------------
\* replace_logical_ids and the substitution loop over payload parts, called
\* directly with a definition and a map.  A text is a sequence of characters;
\* a definition is a JSON array of string values; a map is the sequence of
\* its (logical_id, actual_id) pairs in dict order.

MaxValues == 2      \* string values (or payload parts) of a definition
MaxText == 2        \* characters in all values of a definition together
MaxPairs == 2       \* entries of a logical_id_map

Chars == {"a", "b"}

QUOTE == "\""

Texts == UNION {[1..k -> Chars] : k \in 0..MaxText}

RECURSIVE TotalLen(_)
TotalLen(definition) ==
    IF definition = <<>> THEN 0
    ELSE Len(Head(definition)) + TotalLen(Tail(definition))

Definitions ==
    {d \in UNION {[1..k -> Texts] : k \in 0..MaxValues} : TotalLen(d) <= MaxText}

\* Logical ids are "a", "b" and "ab"; actual ids are "b" and "c".  So a map may
\* hold an actual id that is another entry's logical id, and a logical id
\* that is part of another logical id.
LogicalIdTexts == {<<"a">>, <<"b">>, <<"a", "b">>}

ActualIdTexts == {<<"b">>, <<"c">>}

\* An entry takes a logical id to a different id.
IdPairs ==
    {p \in [logical_id : LogicalIdTexts, actual_id : ActualIdTexts] :
        p.logical_id # p.actual_id}

\* dicts: no key twice.
IdMaps ==
    {m \in UNION {[1..k -> IdPairs] : k \in 0..MaxPairs} :
        \A i, j \in DOMAIN m : i # j => m[i].logical_id # m[j].logical_id}

\* json.dumps of a list of strings: '["v1", "v2"]'.
RECURSIVE dumps_values(_)
dumps_values(values) ==
    IF values = <<>> THEN <<>>
    ELSE <<QUOTE>> \o Head(values) \o <<QUOTE>> \o
         (IF Tail(values) = <<>> THEN <<>> ELSE <<",", " ">>) \o
         dumps_values(Tail(values))

dumps(definition) == <<"[">> \o dumps_values(definition) \o <<"]">>

\* Variant of parse_values that drops empty strings.
RECURSIVE parse_values_drops_empty(_, _, _, _)
parse_values_drops_empty(text, in_string, current, values) ==
    IF text = <<>> THEN values
    ELSE IF in_string
         THEN IF Head(text) = QUOTE
              THEN parse_values_drops_empty(Tail(text), FALSE, <<>>,
                       IF current = <<>> THEN values ELSE Append(values, current))
              ELSE parse_values_drops_empty(Tail(text), TRUE,
                       Append(current, Head(text)), values)
         ELSE parse_values_drops_empty(Tail(text), Head(text) = QUOTE, <<>>, values)

\* json.loads of such a text: the characters between each pair of quotes.
RECURSIVE parse_values(_, _, _, _)
parse_values(text, in_string, current, values) ==
    IF text = <<>> THEN values
    ELSE IF in_string
         THEN IF Head(text) = QUOTE
              THEN parse_values(Tail(text), FALSE, <<>>, Append(values, current))
              ELSE parse_values(Tail(text), TRUE, Append(current, Head(text)), values)
         ELSE parse_values(Tail(text), Head(text) = QUOTE, <<>>, values)

loads(text) == parse_values(text, FALSE, <<>>, <<>>)

\* "old in text"
contains(text, old) ==
    \E i \in 0..(Len(text) - Len(old)) : SubSeq(text, i + 1, i + Len(old)) = old

\* text.replace(old, new): every non-overlapping occurrence, left to right.
RECURSIVE str_replace(_, _, _)
str_replace(text, old, new) ==
    IF Len(text) < Len(old) \/ old = <<>> THEN text
    ELSE IF SubSeq(text, 1, Len(old)) = old
         THEN new \o str_replace(SubSeq(text, Len(old) + 1, Len(text)), old, new)
         ELSE <<Head(text)>> \o str_replace(Tail(text), old, new)

\* "for logical_id, actual_id in logical_id_map.items(): if logical_id in
\* text: text = text.replace(logical_id, actual_id)": each entry in dict
\* order, applied to the text the entries before it produced.
RECURSIVE replace_loop(_, _, _)
replace_loop(text, pairs, made) ==
    IF pairs = <<>> THEN [text |-> text, replacements_made |-> made]
    ELSE IF contains(text, Head(pairs).logical_id)
         THEN replace_loop(str_replace(text, Head(pairs).logical_id,
                                       Head(pairs).actual_id),
                           Tail(pairs), made + 1)
         ELSE replace_loop(text, Tail(pairs), made)

replace_logical_ids(definition, pairs) ==
    LET r == replace_loop(dumps(definition), pairs, 0)
    IN [called |-> TRUE, op |-> "replace_logical_ids", value |-> loads(r.text),
        replacements_made |-> r.replacements_made]

\* The substitution create_or_update_fabric_item applies to the text of
\* each payload part, one part at a time.
replace_in_parts(parts, pairs) ==
    [called |-> TRUE, op |-> "create_or_update_fabric_item",
     value |-> [i \in DOMAIN parts |-> replace_loop(parts[i], pairs, 0).text],
     replacements_made |-> 0]

ReplaceInit ==
    /\ SessionIdle
    /\ bundle = <<>>
    /\ uuid_counter = 0
    /\ workspace_items = {}
    /\ validation = NotValidated
    /\ fixer_runs = <<>>
    /\ platform_files = <<>>
    /\ scan_pos = 0
    /\ logical_id_map = <<>>
    /\ listed_ids = {}
    /\ resolved = <<>>
    /\ scan_failures = {}
    /\ scan_aborted = FALSE
    /\ item_definition \in Definitions
    /\ id_pairs \in IdMaps
    /\ updated_definition = NotReplaced
    /\ repo_item = NoItem
    /\ remote_calls = <<>>
    /\ publish_result = NotPublished
    /\ config = "NoFile"
    /\ request = NoRequest

replace_vars == <<session_vars, bundle, uuid_counter, workspace_items, validation,
                  fixer_runs, scan_vars, item_definition, id_pairs, repo_item,
                  remote_calls, publish_result, config, request>>

\* A call replace_logical_ids(item_definition, logical_id_map).
call_replace_logical_ids ==
    /\ ~updated_definition.called
    /\ updated_definition' = replace_logical_ids(item_definition, id_pairs)
    /\ UNCHANGED replace_vars

\* The payload-part loop of create_or_update_fabric_item over the same texts
\* taken as the parts of an item.
substitute_parts ==
    /\ ~updated_definition.called
    /\ updated_definition' = replace_in_parts(item_definition, id_pairs)
    /\ UNCHANGED replace_vars

ReplaceNext == call_replace_logical_ids \/ substitute_parts

ReplaceSpec == ReplaceInit /\ [][ReplaceNext]_vars

-----------------------------------------------------------------------------
\* create_or_update_fabric_item called directly for one item directory of
\* the repository, with the answers the remote gives to its REST calls.

MaxParts == 1       \* definition files of the item besides .platform

item_name == "orders"       \* the item_name argument

NewItemId == 105            \* the id the remote gives a created item

\* The item directory: whether its .platform file exists, the displayName of
\* its metadata ("" when the metadata has none), the item_type argument and
\* the number of definition files.
RepoItems ==
    {NoItem} \cup
    [exists : {TRUE}, displayName : {"Orders", ""}, type : {"Notebook", "Lakehouse"},
     parts : 0..MaxParts]

\* metadata.get("displayName", item_name)
display_name(item) == IF item.displayName = "" THEN item_name ELSE item.displayName

\* What client.post(create_url) does.
CreateResponses ==
    {[raised |-> TRUE, status_code |-> 0, id |-> NoId],
     [raised |-> FALSE, status_code |-> 201, id |-> NewItemId],
     [raised |-> FALSE, status_code |-> 409, id |-> NoId],
     [raised |-> FALSE, status_code |-> 500, id |-> NoId]}

\* What client.post(update_url) does.
UpdateResponses ==
    {[raised |-> TRUE, status_code |-> 0],
     [raised |-> FALSE, status_code |-> 200],
     [raised |-> FALSE, status_code |-> 202],
     [raised |-> FALSE, status_code |-> 400]}

\* Variant of create_outcome that takes every status other than 200/201 for
\* a conflict.
create_outcome_all_conflicts(create_response) ==
    IF create_response.raised THEN "raise"
    ELSE IF create_response.status_code \in {200, 201} THEN "created"
    ELSE "conflict"

\* The branches on create_response.status_code.
create_outcome(create_response) ==
    IF create_response.raised THEN "raise"
    ELSE IF create_response.status_code \in {200, 201} THEN "created"
    ELSE IF create_response.status_code = 409 THEN "conflict"
    ELSE "raise"

\* Variant of find_existing_item that goes on with no id when the listing
\* holds no matching item.
find_existing_item_lenient(list_response, name, item_type) ==
    IF list_response.raised THEN [raised |-> TRUE, id |-> NoId]
    ELSE IF list_response.status_code # 200 THEN [raised |-> TRUE, id |-> NoId]
    ELSE [raised |-> FALSE,
          id |-> find_matching_item(list_response.value, name, item_type).id]

\* The conflict branch: list the workspace's items, take the id of the
\* first one with the display name and the type; raise if the listing
\* failed or "if item_id:" finds none.
find_existing_item(list_response, name, item_type) ==
    IF list_response.raised THEN [raised |-> TRUE, id |-> NoId]
    ELSE IF list_response.status_code # 200 THEN [raised |-> TRUE, id |-> NoId]
    ELSE LET m == find_matching_item(list_response.value, name, item_type)
         IN IF m.found /\ m.id # NoId
            THEN [raised |-> FALSE, id |-> m.id]
            ELSE [raised |-> TRUE, id |-> NoId]

CreateCall(item) == [op |-> "create", displayName |-> display_name(item), item_id |-> NoId]

ListCall == [op |-> "list", displayName |-> "", item_id |-> NoId]

UpdateCall(id) == [op |-> "update", displayName |-> "", item_id |-> id]

Answer(response) == [raised |-> response.raised, status_code |-> response.status_code]

\* Steps 3 and 4: with no definition file return the id; else one
\* updateDefinition call against the id, whose rejection is only logged.
update_definition(item, calls, item_id, create_response, list_response, update_response) ==
    IF item.parts = 0
    THEN [calls |-> calls, raised |-> FALSE, item_id |-> item_id,
          create_response |-> Answer(create_response), list_response |-> list_response,
          update_response |-> NoAnswer]
    ELSE [calls |-> Append(calls, UpdateCall(item_id)),
          raised |-> update_response.raised,
          item_id |-> IF update_response.raised THEN NoId ELSE item_id,
          create_response |-> Answer(create_response), list_response |-> list_response,
          update_response |-> update_response]

\* create_or_update_fabric_item: the calls it issues, whether it raises, and
\* the id it returns, for the given answers of the remote.
create_or_update_fabric_item(item, create_response, list_response, update_response) ==
    LET failed(calls, lr) ==
            [calls |-> calls, raised |-> TRUE, item_id |-> NoId,
             create_response |-> Answer(create_response), list_response |-> lr,
             update_response |-> NoAnswer]
    IN IF ~item.exists
       THEN [calls |-> <<>>, raised |-> TRUE, item_id |-> NoId,
             create_response |-> NoAnswer, list_response |-> NoResponse,
             update_response |-> NoAnswer]
       ELSE LET created == <<CreateCall(item)>>
                outcome == create_outcome(create_response)
            IN IF outcome = "created"
               THEN update_definition(item, created, create_response.id,
                                      create_response, NoResponse, update_response)
               ELSE IF outcome = "conflict"
               THEN LET listed == Append(created, ListCall)
                        found == find_existing_item(list_response, display_name(item),
                                                    item.type)
                    IN IF found.raised
                       THEN failed(listed, list_response)
                       ELSE update_definition(item, listed, found.id, create_response,
                                              list_response, update_response)
               ELSE failed(created, NoResponse)

PublisherInit ==
    /\ SessionIdle
    /\ bundle = <<>>
    /\ uuid_counter = 0
    /\ workspace_items = {}
    /\ validation = NotValidated
    /\ fixer_runs = <<>>
    /\ platform_files = <<>>
    /\ scan_pos = 0
    /\ logical_id_map = <<>>
    /\ listed_ids = {}
    /\ resolved = <<>>
    /\ scan_failures = {}
    /\ scan_aborted = FALSE
    /\ item_definition = <<>>
    /\ id_pairs = <<>>
    /\ updated_definition = NotReplaced
    /\ repo_item \in RepoItems
    /\ remote_calls = <<>>
    /\ publish_result = NotPublished
    /\ config = "NoFile"
    /\ request = NoRequest

\* One call of create_or_update_fabric_item.
call_create_or_update_fabric_item ==
    /\ ~publish_result.called
    /\ \E create_response \in CreateResponses, list_response \in Responses,
          update_response \in UpdateResponses :
          LET r == create_or_update_fabric_item(repo_item, create_response,
                                                list_response, update_response)
          IN /\ remote_calls' = r.calls
             /\ publish_result' =
                   [called |-> TRUE, raised |-> r.raised, item_id |-> r.item_id,
                    create_response |-> r.create_response,
                    list_response |-> r.list_response,
                    update_response |-> r.update_response]
    /\ UNCHANGED <<session_vars, bundle, uuid_counter, workspace_items, validation,
                   fixer_runs, scan_vars, item_definition, id_pairs,
                   updated_definition, repo_item, config, request>>

PublisherNext == call_create_or_update_fabric_item

PublisherSpec == PublisherInit /\ [][PublisherNext]_vars

-----------------------------------------------------------------------------
\* The argument handling of download_and_deploy and deploy_artifacts, for a
\* launcher built with or without a configuration file.

\* An optional list argument: None, an empty list, or a list of item types.
ListArgs == {"None", "Empty", "Given"}

AllowArgs == {"None", "True", "False"}

\* launcher.config: None ("NoFile"), or a loaded DeploymentConfig whose file
\* leaves deployment.allow_non_empty_workspace out ("Unset") or sets it.
Configs == {"NoFile", "Unset", "True", "False"}

\* Variant of mutually_exclusive that tests the arguments for truth.
mutually_exclusive_truthy(types_arg, stages_arg) ==
    types_arg = "Given" /\ stages_arg = "Given"

\* "item_types is not None and item_type_stages is not None"
mutually_exclusive(types_arg, stages_arg) ==
    types_arg # "None" /\ stages_arg # "None"

\* get_deployment_config()["allow_non_empty_workspace"]:
\* self.get("deployment.allow_non_empty_workspace", False).
deployment_config_allow(cfg) == cfg = "True"

\* allow_non_empty_workspace as download_and_deploy hands it to the deployer:
\* the argument; else, with a configuration loaded, the entry of the
\* deployment configuration (always present); else the launcher's setting.
resolve_allow_with_config(arg, cfg, launcher_setting) ==
    IF arg # "None" THEN arg = "True"
    ELSE IF cfg # "NoFile" THEN deployment_config_allow(cfg)
    ELSE launcher_setting

\* download_and_deploy up to the deployment step: what it does, in order,
\* and how it ends.
download_and_deploy_steps(types_arg, stages_arg, allow, repo_given, download_ok) ==
    LET base == [method |-> "download_and_deploy", item_types |-> types_arg,
                 item_type_stages |-> stages_arg, allow |-> allow,
                 raised |-> TRUE, error |-> "ValueError", steps |-> <<"report">>,
                 deployer_created |-> FALSE, allow_non_empty_workspace |-> FALSE]
        read == IF config = "NoFile" THEN <<"report">> ELSE <<"report", "config">>
    IN IF mutually_exclusive(types_arg, stages_arg) THEN base
       ELSE IF ~repo_given THEN [base EXCEPT !.steps = read]
       ELSE IF ~download_ok
            THEN [base EXCEPT !.steps = Append(read, "download"),
                              !.error = "DownloadError"]
       ELSE [base EXCEPT
                !.steps = read \o <<"download", "deployer", "publish">>,
                !.raised = FALSE,
                !.error = "",
                !.deployer_created = TRUE,
                !.allow_non_empty_workspace =
                    resolve_allow_with_config(allow, config,
                                              launcher.allow_non_empty_workspace)]

LauncherInit ==
    /\ pc = "Idle"
    /\ launcher \in [allow_non_empty_workspace : BOOLEAN, fix_zero_logical_ids : BOOLEAN]
    /\ item_type_stages = <<>>
    /\ item_types = <<>>
    /\ deployment_retries = 0
    /\ stage_num = 0
    /\ retries_remaining = 0
    /\ deployer = NoDeployer
    /\ item_type_in_scope = <<>>
    /\ bundle = <<>>
    /\ uuid_counter = 0
    /\ workspace_items = {}
    /\ log = <<>>
    /\ last = NoCall
    /\ surfaced = NoError
    /\ validation = NotValidated
    /\ fixer_runs = <<>>
    /\ platform_files = <<>>
    /\ scan_pos = 0
    /\ logical_id_map = <<>>
    /\ listed_ids = {}
    /\ resolved = <<>>
    /\ scan_failures = {}
    /\ scan_aborted = FALSE
    /\ item_definition = <<>>
    /\ id_pairs = <<>>
    /\ updated_definition = NotReplaced
    /\ repo_item = NoItem
    /\ remote_calls = <<>>
    /\ publish_result = NotPublished
    /\ config \in Configs
    /\ request = NoRequest

launcher_call_vars == <<session_vars, bundle, uuid_counter, workspace_items, validation,
                        fixer_runs, scan_vars, item_definition, id_pairs,
                        updated_definition, repo_item, remote_calls, publish_result,
                        config>>

\* A call of download_and_deploy, with the repository named or not (by
\* argument or configuration) and the download succeeding or not.
call_download_and_deploy ==
    /\ request.method = "None"
    /\ \E types_arg \in ListArgs, stages_arg \in ListArgs, allow \in AllowArgs,
          repo_given \in BOOLEAN, download_ok \in BOOLEAN :
          request' = download_and_deploy_steps(types_arg, stages_arg, allow,
                                               repo_given, download_ok)
    /\ UNCHANGED launcher_call_vars

\* A call of deploy_artifacts on an extracted repository.
call_deploy_artifacts ==
    /\ request.method = "None"
    /\ \E types_arg \in ListArgs, allow \in AllowArgs :
          request' = [method |-> "deploy_artifacts", item_types |-> types_arg,
                      item_type_stages |-> "None", allow |-> allow,
                      raised |-> FALSE, error |-> "",
                      steps |-> <<"deployer", "publish">>,
                      deployer_created |-> TRUE,
                      allow_non_empty_workspace |->
                          resolve_allow(allow, launcher.allow_non_empty_workspace)]
    /\ UNCHANGED launcher_call_vars

LauncherNext == call_download_and_deploy \/ call_deploy_artifacts

LauncherSpec == LauncherInit /\ [][LauncherNext]_vars

\* ------------------------------------------------------------ properties
\* Calls of deploy_items made for stage k so far.
AttemptsOf(k) == {i \in DOMAIN log : log[i].stage = k}

\* The session was created with allow_non_empty_workspace = False.
StartedStrict == log # <<>> /\ ~log[1].allow

\* The call raised out of the workspace validation, before any publish.
ValidationFailed(e) == e.validated /\ e.raised /\ ~e.published

\* C1: in a session with allowNonEmptyWorkspace = false whose workspace
\* validation fails, the session aborts with that failure surfaced and no
\* publish call is ever invoked, whatever the retry budget.
C1_AbortsOnWorkspaceNotEmpty ==
    (StartedStrict /\ ValidationFailed(log[1])) =>
        /\ \A j \in DOMAIN log : ~log[j].published
        /\ pc \in {"Done", "Failed"} =>
              (pc = "Failed" /\ surfaced.msg = "WorkspaceNotEmpty")

\* C2: once a deploy attempt has failed with retries remaining, every later
\* attempt of the session (same stage or later stage) runs with
\* allow_non_empty_workspace and the session-started flag true and does not
\* run the workspace validation; the deployer keeps both flags.
C2_RatchetHolds ==
    \A i \in DOMAIN log :
        (log[i].raised /\ log[i].retries_remaining > 0) =>
            /\ deployer.allow_non_empty_workspace
            /\ deployer.deployment_session_started = "True"
            /\ \A j \in DOMAIN log :
                  j > i => /\ log[j].allow
                           /\ log[j].started = "True"
                           /\ ~log[j].validated

\* Stage plan [[A],[B]], strict session: stage 1 fails at publish, succeeds on
\* the retry, and stage 2 is deployed without validation.
C2_Witness ==
    /\ item_type_stages = <<(<<"Lakehouse">>), (<<"Notebook">>)>>
    /\ Len(log) = 3
    /\ ~log[1].allow /\ log[1].stage = 1 /\ log[1].published /\ log[1].raised
    /\ log[2].stage = 1 /\ ~log[2].raised
    /\ log[3].stage = 2 /\ log[3].published /\ ~log[3].validated

\* C3: in one session the workspace validation is run once, before the first
\* publish; after a call has validated and gone on to publish, no later
\* deploy call runs the validation again.
C3_ValidatesOnce ==
    \A i, j \in DOMAIN log :
        (i < j /\ log[i].validated /\ log[i].published) => ~log[j].validated

\* C4: deploy calls are made in stage order with the stage's own type list;
\* a call for stage k+1 follows a successful publish of stage k, and nothing
\* is called after a stage has raised with no retries left.
C4_StagesInOrder ==
    /\ \A i \in DOMAIN log :
          /\ log[i].stage \in DOMAIN StagePlan
          /\ log[i].item_types = StagePlan[log[i].stage]
          /\ (log[i].raised /\ log[i].retries_remaining = 0) => i = Len(log)
    /\ log # <<>> => log[1].stage = 1
    /\ \A j \in DOMAIN log :
          j > 1 => \/ /\ log[j].stage = log[j-1].stage
                      /\ log[j-1].raised
                   \/ /\ log[j].stage = log[j-1].stage + 1
                      /\ log[j-1].published /\ ~log[j-1].raised

\* Two stages, retries = 0: the only attempt of stage 1 fails at publish and
\* the session is over without a call for stage 2.
C4_Witness ==
    /\ pc = "Failed"
    /\ Len(item_type_stages) = 2
    /\ deployment_retries = 0
    /\ Len(log) = 1 /\ log[1].stage = 1 /\ log[1].published /\ log[1].raised

\* Steps the controller can still take: a variant bounded by the stage plan
\* and the retry budget.
Variant ==
    CASE pc = "Idle" -> (MaxStages + 1) * (MaxRetries + 1) + 1
      [] pc = "Deploying" ->
           (Len(StagePlan) - stage_num) * (deployment_retries + 1) + retries_remaining + 1
      [] OTHER -> 0

C5_State ==
    /\ \A k \in DOMAIN StagePlan : Cardinality(AttemptsOf(k)) <= deployment_retries + 1
    /\ \A j \in DOMAIN log :
          (j > 1 /\ log[j-1].raised) =>
              /\ log[j].stage = log[j-1].stage
              /\ log[j].item_types = log[j-1].item_types
              /\ log[j].retries_remaining = log[j-1].retries_remaining - 1
    /\ pc = "Done" =>
          \A k \in DOMAIN StagePlan : \E i \in AttemptsOf(k) : ~log[i].raised
    /\ pc = "Failed" =>
          /\ Cardinality(AttemptsOf(stage_num)) = deployment_retries + 1
          /\ \A i \in AttemptsOf(stage_num) : log[i].raised
    /\ pc = "Deploying" =>
          /\ stage_num \in DOMAIN StagePlan
          /\ retries_remaining \in 0..deployment_retries
    /\ Variant >= 0
    /\ Variant = 0 <=> pc \in {"Done", "Failed"}

\* C5: every stage is attempted at most retries+1 times, a retry repeats the
\* same stage with the same type list, and the controller terminates in Done
\* (every stage succeeded) or Failed (a stage failed retries+1 times): while
\* deploying, the stage index and retry budget stay in range (the next deploy
\* call can always be made), and every step strictly decreases a non-negative
\* variant that is zero exactly in the terminal states.
C5_BoundedRetriesAndTermination ==
    [](C5_State) /\ [][Variant' < Variant]_vars

\* Retries = 1: a stage failed twice and the session is Failed.
C5_Witness ==
    /\ pc = "Failed"
    /\ deployment_retries = 1
    /\ Len(log) >= 2
    /\ log[Len(log)].raised /\ log[Len(log) - 1].raised
    /\ log[Len(log)].stage = log[Len(log) - 1].stage

\* C6: with the repairer enabled, no descriptor of the bundle carries the
\* zero GUID at the moment a publish call is invoked.
C6_NoSentinelAtPublish ==
    (deployer.fix_zero_logical_ids /\ last.published) => ~last.sentinel

\* C7: with repair enabled every deploy call, first attempt or retry, makes
\* exactly one non-dry-run repair pass before it validates and publishes, so
\* that afterwards no writable descriptor carries the zero GUID; with repair
\* disabled no fixer is created and no pass is run.
C7_RepairBeforeEveryPublish ==
    log # <<>> =>
        IF deployer.fix_zero_logical_ids
        THEN /\ last.repair_passes = <<FALSE>>
             /\ last.fixers = 1
             /\ \A f \in DOMAIN bundle :
                   (bundle[f].parses /\ bundle[f].writable) =>
                       bundle[f].logicalId # ZERO_GUID
        ELSE /\ last.repair_passes = <<>>
             /\ last.fixers = 0
             /\ uuid_counter = MaxFiles

\* Repair enabled: a first attempt that failed at publish and its retry, both
\* published after a repair pass that rewrote a zero GUID.
C7_Witness ==
    /\ deployer.fix_zero_logical_ids
    /\ Len(log) >= 2
    /\ log[Len(log) - 1].published /\ log[Len(log) - 1].raised
    /\ log[Len(log)].retries_remaining < deployment_retries
    /\ last.published /\ last.repair_passes = <<FALSE>>
    /\ \E f \in DOMAIN bundle : bundle[f].logicalId > MaxFiles

\* C8: a deploy call with an empty or omitted type list publishes with no
\* type scope, a call with a non-empty list publishes scoped to that list,
\* whatever earlier calls of the session used.
C8_ScopeFollowsArgument ==
    \A i \in DOMAIN log : log[i].published => log[i].scope = log[i].item_types

\* The stage index an exception carries (0: none).
StageCarried(e) == IF "stage" \in DOMAIN e THEN e.stage ELSE 0

CompletedStages ==
    {log[i].stage : i \in {j \in DOMAIN log :
        /\ log[j].published /\ ~log[j].raised
        /\ {PublishedItem(t) : t \in ScopedTypes(log[j].scope)} \subseteq workspace_items}}

\* C10: no step of the controller, the abort on exhausted retries included,
\* removes an item from the workspace or a stage from the completed stages.
C10_NoRollback ==
    [][/\ workspace_items \subseteq workspace_items'
       /\ CompletedStages \subseteq CompletedStages']_vars

\* Stage 1 completed, stage 2 exhausted its retries: stage 1 is still there.
C10_Witness ==
    /\ pc = "Failed"
    /\ stage_num = 2
    /\ 1 \in CompletedStages

\* The precondition check of call e was passed or bypassed: the call went on
\* to publish.
CheckSatisfied(e) == e.published

C11_State ==
    /\ (pc = "Deploying" /\ log = <<>>) =>
          deployer.deployment_session_started = "False"
    /\ (\E i \in DOMAIN log : CheckSatisfied(log[i])) =>
          deployer.deployment_session_started = "True"

\* C11: the session-started flag of the deployer is false when the deployer
\* is created, is true once a deploy call has passed or bypassed the workspace
\* validation, and once true is never reset.
C11_FlagLifecycle ==
    /\ [](C11_State)
    /\ [][deployer.deployment_session_started = "True" =>
             deployer'.deployment_session_started = "True"]_vars

\* The validator obtained the notebook name and the workspace listing.
ListingObtained == validation.called /\ validation.name_known /\ validation.list_ok

\* The listed items that are not the notebook the deployment runs from
\* (the self artifact is known by its display name only).
Unexpected == {it \in workspace_items : it.name # current_notebook_name}

ItemsCarried(e) == IF "items" \in DOMAIN e THEN e.items ELSE {}

ScanRuns == {i \in DOMAIN fixer_runs : fixer_runs[i].op = "scan_and_fix_all"}
RepairRuns == {i \in ScanRuns : ~fixer_runs[i].dry_run}

\* The directory as call i left it.
After(i) == IF i < Len(fixer_runs) THEN fixer_runs[i + 1].before ELSE bundle

\* The files of a directory that parse and carry the zero GUID.
ZeroFiles(b) == {f \in DOMAIN b : b[f].parses /\ b[f].logicalId = ZERO_GUID}

LogicalIds(b, files) == {b[f].logicalId : f \in files}

C16_NonSentinelFilesUntouched ==
    \A i \in DOMAIN fixer_runs :
        \A f \in DOMAIN fixer_runs[i].before :
            LET d == fixer_runs[i].before[f]
            IN (d.parses /\ d.logicalId # ZERO_GUID) =>
                  /\ After(i)[f] = d
                  /\ f \notin Range(fixer_runs[i].fixed_files)
                  /\ fixer_runs[i].file = f => fixer_runs[i].files_fixed = 0

\* fix_platform_file was called on a file with a valid logicalId after a
\* scan_and_fix_all that rewrote its neighbour.
C16_Witness ==
    /\ Len(fixer_runs) = 2
    /\ 1 \in RepairRuns /\ fixer_runs[1].files_fixed = 1
    /\ fixer_runs[2].op = "fix_platform_file" /\ ~fixer_runs[2].dry_run
    /\ bundle[fixer_runs[2].file].logicalId = fixer_runs[2].file
    /\ Len(bundle) = 2

\* What a scan_and_fix_all(dry_run=False) on directory b would report.
NonDryReport(b) == scan_and_fix_all(b, FALSE, 0)

\* C17 as stated: scan_and_fix_all(dry_run=True) modifies no file and reports
\* the total_files, files_with_zero_guid and files_fixed a non-dry call on the
\* same directory reports.
C17_DryRunSameCounts ==
    \A i \in ScanRuns :
        fixer_runs[i].dry_run =>
            /\ After(i) = fixer_runs[i].before
            /\ fixer_runs[i].total_files = NonDryReport(fixer_runs[i].before).total_files
            /\ fixer_runs[i].files_with_zero_guid =
                   NonDryReport(fixer_runs[i].before).files_with_zero_guid
            /\ fixer_runs[i].files_fixed = NonDryReport(fixer_runs[i].before).files_fixed

\* C17 amended: scan_and_fix_all(dry_run=True) modifies no file and reports
\* the total_files and files_with_zero_guid of a non-dry call on the same
\* directory; its files_fixed equals files_with_zero_guid, which is the
\* non-dry call's files_fixed plus the number of writes that call fails.
C17_DryRunCountsEveryZeroFile ==
    \A i \in ScanRuns :
        fixer_runs[i].dry_run =>
            LET b == fixer_runs[i].before
                unwritable == {f \in ZeroFiles(b) : ~b[f].writable}
            IN /\ After(i) = b
               /\ fixer_runs[i].total_files = NonDryReport(b).total_files
               /\ fixer_runs[i].files_with_zero_guid = NonDryReport(b).files_with_zero_guid
               /\ fixer_runs[i].files_fixed = fixer_runs[i].files_with_zero_guid
               /\ fixer_runs[i].files_fixed =
                      NonDryReport(b).files_fixed + Cardinality(unwritable)

\* A dry run that reported a zero GUID file, followed by the real call that
\* rewrote it.
C17_Witness ==
    /\ Len(fixer_runs) = 2
    /\ ScanRuns = {1, 2}
    /\ fixer_runs[1].dry_run /\ fixer_runs[1].files_fixed >= 1
    /\ ~fixer_runs[2].dry_run /\ fixer_runs[2].files_fixed = fixer_runs[1].files_fixed

\* C18: a file that fails to parse is skipped by the fixer: it is counted in
\* neither files_with_zero_guid nor files_fixed, it is left unmodified, and
\* the scan goes on over the other files (every writable zero GUID file is
\* still rewritten by a non-dry call).
C18_MalformedSkipped ==
    \A i \in DOMAIN fixer_runs :
        LET b == fixer_runs[i].before
            malformed == {f \in DOMAIN b : ~b[f].parses}
        IN /\ \A f \in malformed :
                 /\ After(i)[f] = b[f]
                 /\ f \notin Range(fixer_runs[i].fixed_files)
                 /\ fixer_runs[i].file = f =>
                       /\ fixer_runs[i].files_with_zero_guid = 0
                       /\ fixer_runs[i].files_fixed = 0
           /\ i \in ScanRuns =>
                 /\ fixer_runs[i].total_files = Len(b)
                 /\ fixer_runs[i].files_with_zero_guid = Cardinality(ZeroFiles(b))
                 /\ fixer_runs[i].files_fixed <= fixer_runs[i].files_with_zero_guid
           /\ i \in RepairRuns =>
                 \A f \in ZeroFiles(b) :
                     b[f].writable => /\ After(i)[f].logicalId # ZERO_GUID
                                      /\ f \in Range(fixer_runs[i].fixed_files)

\* A directory whose first file does not parse and whose second file carried
\* the zero GUID: the call skipped the first and rewrote the second.
C18_Witness ==
    /\ RepairRuns # {}
    /\ Len(bundle) = 2
    /\ ~bundle[1].parses
    /\ fixer_runs[1].op = "scan_and_fix_all" /\ ~fixer_runs[1].dry_run
    /\ fixer_runs[1].total_files = 2
    /\ fixer_runs[1].fixed_files = <<2>>

\* C19: every key of logical_id_map is the logicalId of a descriptor of the
\* repository, every value is an item id that appeared in a listing returned
\* to the scan, and no value is the zero GUID or a missing value.
C19_KeysFromBundleValuesFromListings ==
    \A k \in DOMAIN logical_id_map :
        /\ \E f \in DOMAIN platform_files :
              platform_files[f].parses /\ platform_files[f].logicalId = k
        /\ k # NoId
        /\ logical_id_map[k] \in listed_ids
        /\ logical_id_map[k] \notin {ZERO_GUID, NoId}

\* A scan over two descriptors that ended with two keys, the zero GUID one
\* of them.
C19_Witness ==
    /\ scan_pos = 2 /\ Len(platform_files) = 2
    /\ DOMAIN logical_id_map = {ZERO_GUID, 1}

\* The processed descriptors the listing held an item for.
Resolved == {f \in 1..scan_pos : resolved[f] # NoId}

\* C20 as stated: the map takes each descriptor's logicalId to the id of the
\* first item, in listing order, with the descriptor's displayName and
\* type; a descriptor without such an item or without displayName, type or
\* logicalId contributes no key.
C20_EachDescriptorMapsToItsFirstMatch ==
    /\ \A f \in Resolved : logical_id_map[platform_files[f].logicalId] = resolved[f]
    /\ DOMAIN logical_id_map = {platform_files[f].logicalId : f \in Resolved}

\* C20 amended: as stated for a logicalId that one descriptor carries; when
\* several descriptors share a logicalId the map holds one entry for it, the
\* first matching item of the last of them (in scan order) that has one.
C20_LastResolvedDescriptorWins ==
    /\ DOMAIN logical_id_map = {platform_files[f].logicalId : f \in Resolved}
    /\ \A f \in Resolved :
          LET k == platform_files[f].logicalId
              same == {g \in Resolved : platform_files[g].logicalId = k}
          IN (\A g \in same : g <= f) => logical_id_map[k] = resolved[f]
    /\ \A f \in 1..scan_pos :
          ~requests_listing(platform_files[f]) => resolved[f] = NoId

\* The listing held items 102 and 101, in that order, for the only
\* descriptor: its logicalId is mapped to 102.
C20_Witness ==
    /\ scan_pos = 1
    /\ listed_ids = {101, 102}
    /\ resolved = <<102>>
    /\ logical_id_map[platform_files[1].logicalId] = 102

\* C21: a failed listing request for one descriptor does not abort the scan.
\* The loop is never left by an exception, so every remaining descriptor is
\* still processed; a failed request leaves the map as it was; and whenever a
\* request failed, every descriptor that did resolve, before or after the
\* failure, has its logicalId in the map with the id the last resolved
\* descriptor of that logicalId was given.
C21_State ==
    /\ ~scan_aborted
    /\ scan_failures # {} =>
          \A i \in Resolved :
             LET same == {j \in Resolved :
                            platform_files[j].logicalId = platform_files[i].logicalId}
                 last_one == CHOOSE j \in same : \A k \in same : k <= j
             IN /\ platform_files[i].logicalId \in DOMAIN logical_id_map
                /\ logical_id_map[platform_files[i].logicalId] = resolved[last_one]

C21_ScanSurvivesLookupFailure ==
    /\ [](C21_State)
    /\ [][scan_failures' # scan_failures =>
              /\ logical_id_map' = logical_id_map
              /\ ~scan_aborted'
              /\ scan_pos' = scan_pos + 1]_vars

\* A request that raised for the first descriptor, then a second descriptor
\* that was looked up and mapped.
C21_Witness ==
    /\ scan_pos = 2
    /\ scan_failures = {1}
    /\ 2 \in Resolved
    /\ platform_files[2].logicalId \in DOMAIN logical_id_map
    /\ ~scan_aborted

\* The entries of the map in use and the ways to order them.
Orderings(pairs) ==
    {q \in [DOMAIN pairs -> Range(pairs)] : Range(q) = Range(pairs)}

Replaced == updated_definition.called /\ updated_definition.op = "replace_logical_ids"

NoKeyOccurs ==
    \A p \in Range(id_pairs) :
       \A i \in DOMAIN item_definition : ~contains(item_definition[i], p.logical_id)

\* C23: replace_logical_ids with an empty map, or with a map none of whose
\* logical ids occurs in the definition, returns a definition equal to its
\* input (and counts no replacement).
C23_NoMatchReturnsInput ==
    (Replaced /\ (id_pairs = <<>> \/ NoKeyOccurs)) =>
       /\ updated_definition.value = item_definition
       /\ updated_definition.replacements_made = 0

\* A non-empty map, none of whose logical ids occurs in a definition that
\* holds an empty and a non-empty value.
C23_Witness ==
    /\ Replaced
    /\ id_pairs # <<>>
    /\ NoKeyOccurs
    /\ \E i, j \in DOMAIN item_definition :
          item_definition[i] = <<>> /\ item_definition[j] # <<>>
    /\ updated_definition.value = item_definition

\* C30 as stated: the result of the substitution, by replace_logical_ids
\* and by the loop over payload parts, is the same for every order of the
\* map's entries.  (Violated for maps whose entries overlap.)
C30_OrderIndependent ==
    updated_definition.called =>
       \A q \in Orderings(id_pairs) :
          updated_definition.value =
             IF updated_definition.op = "replace_logical_ids"
             THEN replace_logical_ids(item_definition, q).value
             ELSE replace_in_parts(item_definition, q).value

Published == publish_result.called

CreateCalls == {i \in DOMAIN remote_calls : remote_calls[i].op = "create"}

ListCalls == {i \in DOMAIN remote_calls : remote_calls[i].op = "list"}

UpdateCalls == {i \in DOMAIN remote_calls : remote_calls[i].op = "update"}

Conflict ==
    /\ Published
    /\ ~publish_result.create_response.raised
    /\ publish_result.create_response.status_code = 409

\* Positions of the listing answered after a conflict that hold an item
\* with the display name and type asked for.
ExistingListed ==
    {i \in DOMAIN publish_result.list_response.value :
        /\ publish_result.list_response.value[i].displayName = display_name(repo_item)
        /\ publish_result.list_response.value[i].type = repo_item.type}

ExistingId ==
    publish_result.list_response.value[
        CHOOSE i \in ExistingListed : \A j \in ExistingListed : i <= j].id

ObtainedId ==
    IF publish_result.create_response.status_code = 201 THEN NewItemId
    ELSE IF Conflict /\ ExistingListed # {} THEN ExistingId
    ELSE NoId

OtherCreateFailure ==
    /\ CreateCalls # {}
    /\ \/ publish_result.create_response.raised
       \/ publish_result.create_response.status_code \notin {200, 201, 409}

\* What C25 states about the update-definition call and the value returned.
C25_UpdateAfterCreate ==
    /\ Cardinality(UpdateCalls) <= 1
    /\ \A u \in UpdateCalls :
          /\ \E c \in CreateCalls : c < u
          /\ ObtainedId # NoId
          /\ remote_calls[u].item_id = ObtainedId
    /\ ~publish_result.raised => publish_result.item_id = ObtainedId /\ ObtainedId # NoId
    /\ OtherCreateFailure => publish_result.raised /\ UpdateCalls = {}

\* C25 as stated: one call issues exactly one create call and at most one
\* update-definition call, the update after the create and against the
\* obtained id, which is returned; another create failure raises without
\* an update.  (Violated: no create call when the item's .platform file is
\* missing.)
C25_ExactlyOneCreate ==
    Published => (Cardinality(CreateCalls) = 1 /\ C25_UpdateAfterCreate)

\* C25, amended: at most one create call, and none exactly when the item
\* definition cannot be read from the repository, in which case the
\* function raises without any remote call; the rest as stated.
C25_AtMostOneCreate ==
    Published =>
       /\ Cardinality(CreateCalls) = (IF repo_item.exists THEN 1 ELSE 0)
       /\ ~repo_item.exists => publish_result.raised /\ remote_calls = <<>>
       /\ C25_UpdateAfterCreate

\* A created item whose definition was then uploaded against the new id.
C25_Witness ==
    /\ Published
    /\ publish_result.create_response.status_code = 201
    /\ remote_calls = <<CreateCall(repo_item), UpdateCall(NewItemId)>>
    /\ ~publish_result.raised
    /\ publish_result.item_id = NewItemId

\* C29 as stated: an id is returned only if the update-definition call, when
\* one was made, was accepted (200 or 202); a rejected update raises.
\* (Violated: a rejected update is logged and the id returned.)
C29_RejectedUpdateSurfaced ==
    (Published /\ UpdateCalls # {}) =>
       /\ ~publish_result.raised =>
             publish_result.update_response.status_code \in {200, 202}
       /\ (/\ ~publish_result.update_response.raised
           /\ publish_result.update_response.status_code \notin {200, 202})
             => publish_result.raised

\* C26: download_and_deploy called with item_types and item_type_stages
\* both not None raises ValueError having done nothing but start its
\* report: no configuration read, no download, no deployer, no publish.
C26_BothGivenRaisesFirst ==
    (/\ request.method = "download_and_deploy"
     /\ request.item_types # "None"
     /\ request.item_type_stages # "None") =>
       /\ request.raised
       /\ request.error = "ValueError"
       /\ ~request.deployer_created
       /\ \A i \in DOMAIN request.steps :
             request.steps[i] \notin {"config", "download", "deployer", "publish"}

\* Both arguments given, one of them as an empty list.
C26_Witness ==
    /\ request.method = "download_and_deploy"
    /\ request.item_types = "Empty"
    /\ request.item_type_stages = "Given"
    /\ request.raised
    /\ request.steps = <<"report">>

\* C27 as stated: a deploy method called with allow_non_empty_workspace =
\* None creates the deployer with the launcher's own setting whenever no
\* configuration file sets a value.  (Violated by download_and_deploy on a
\* launcher with a configuration file that leaves the setting out.)
C27_NoneUsesLauncherSetting ==
    (/\ request.deployer_created
     /\ request.allow = "None"
     /\ config \in {"NoFile", "Unset"}) =>
       request.allow_non_empty_workspace = launcher.allow_non_empty_workspace

\* C28 as stated: the validator raises only when it obtained a listing that
\* holds an item other than the self artifact; with the notebook name not
\* available the check is skipped, and with a failed listing call it is
\* abandoned, in both cases without an error.  (Violated: a RuntimeError
\* raised by the listing call leaves the validator.)
C28_BlocksOnlyOnObservedItem ==
    validation.called =>
       /\ validation.error # NoError => (ListingObtained /\ Unexpected # {})
       /\ ~validation.name_known =>
             (validation.result = "skipped" /\ validation.error = NoError)
       /\ (validation.name_known /\ ~validation.list_ok) =>
             (validation.result = "abandoned" /\ validation.error = NoError)

====
